---- MODULE Spec2Model ----
(***************************************************************************)
(* Model of the Kraken dollar-cost-averaging client (package dca).         *)
(*                                                                         *)
(* The provider modelled is the query-inclusive KrakenProvider             *)
(* (ExecuteOrder -> fetchBuyVolume -> placeOrder -> queryOrderInfo).       *)
(* Several callers (goroutines) share one provider instance; every         *)
(* blocking HTTP round trip is split into a "Do" step (request leaves)     *)
(* and a "Response" step (the rest of the function runs on the answer).    *)
(*                                                                         *)
(* Besides the order pipeline (Spec, SpecConc) the module follows the      *)
(* package's pure functions applied to single inputs (SpecPure), the       *)
(* request signer over successive calls (SpecSign), the commands' loading   *)
(* of their configuration (SpecConfig) and the two entry points from their *)
(* start to what they report (SpecMain).                                   *)
(***************************************************************************)
EXTENDS Integers, Sequences, FiniteSets, TLC

\* ------------------------------------------------------------------ bounds
\* Total number of ExecuteOrder calls started over the life of the provider.
MaxCalls == 2

\* Goroutines that may call into the one provider instance.
Callers == {"g1", "g2"}
\* The goroutine of a program that makes its calls one after the other.
Sequential == {"g1"}

\* ------------------------------------------------------------------ float64
\* A float64 is modelled as an exact rational n/d (d > 0, lowest terms) or one
\* of the IEEE-754 special values.  Rounding of finite results is abstracted.
Num(n, d) == [k |-> "num", n |-> n, d |-> d]
PInf == [k |-> "pinf", n |-> 0, d |-> 1]
NInf == [k |-> "ninf", n |-> 0, d |-> 1]
NaN == [k |-> "nan", n |-> 0, d |-> 1]
NZero == [k |-> "nzero", n |-> 0, d |-> 1]
\* The smallest positive float64 (5e-324).  It is finite and greater than zero,
\* and so small that dividing an ordinary number by it overflows.  The model
\* only ever divides by it.
Tiny == [k |-> "tiny", n |-> 0, d |-> 1]
FZero == Num(0, 1)

Abs(i) == IF i < 0 THEN -i ELSE i

RECURSIVE GCD(_, _)
GCD(a, b) == IF b = 0 THEN a ELSE GCD(b, a % b)

Norm(n, d) ==
    LET s == IF d < 0 THEN -1 ELSE 1
        g == GCD(Abs(n), Abs(d))
    IN  Num((s * n) \div g, (s * d) \div g)

IsNaN(a) == a.k = "nan"
IsInf(a) == a.k \in {"pinf", "ninf"}
IsZero(a) == a.k = "nzero" \/ (a.k = "num" /\ a.n = 0)
IsTiny(a) == a.k = "tiny"
IsNeg(a) == a.k \in {"nzero", "ninf"} \/ (a.k = "num" /\ a.n < 0)
SignedInf(neg) == IF neg THEN NInf ELSE PInf
SignedZero(neg) == IF neg THEN NZero ELSE FZero

\* A division with its operands the wrong way round: b / a for finite operands.
fdivInverted(a, b) ==
    LET neg == IsNeg(a) # IsNeg(b)
    IN  IF IsNaN(a) \/ IsNaN(b) THEN NaN
        ELSE IF IsInf(a) /\ IsInf(b) THEN NaN
        ELSE IF IsZero(a) /\ IsZero(b) THEN NaN
        ELSE IF IsInf(a) \/ IsZero(b) THEN SignedInf(neg)
        ELSE IF IsZero(a) \/ IsInf(b) THEN SignedZero(neg)
        ELSE IF IsTiny(b) THEN SignedInf(neg)
        ELSE Norm(a.d * b.n, a.n * b.d)

\* Go's float64 division a / b.
fdiv(a, b) ==
    LET neg == IsNeg(a) # IsNeg(b)
    IN  IF IsNaN(a) \/ IsNaN(b) THEN NaN
        ELSE IF IsInf(a) /\ IsInf(b) THEN NaN
        ELSE IF IsZero(a) /\ IsZero(b) THEN NaN
        ELSE IF IsInf(a) \/ IsZero(b) THEN SignedInf(neg)
        ELSE IF IsZero(a) \/ IsInf(b) THEN SignedZero(neg)
        ELSE IF IsTiny(b) THEN SignedInf(neg)
        ELSE Norm(a.n * b.d, a.d * b.n)

\* Go's float64 multiplication a * b.
fmul(a, b) ==
    LET neg == IsNeg(a) # IsNeg(b)
    IN  IF IsNaN(a) \/ IsNaN(b) THEN NaN
        ELSE IF (IsInf(a) /\ IsZero(b)) \/ (IsZero(a) /\ IsInf(b)) THEN NaN
        ELSE IF IsInf(a) \/ IsInf(b) THEN SignedInf(neg)
        ELSE IF IsZero(a) \/ IsZero(b) THEN SignedZero(neg)
        ELSE Norm(a.n * b.n, a.d * b.d)

\* The conversion float64(i) of an int.
float64(i) == Num(i, 1)

\* A volume that is a proper, strictly positive number.
IsPositiveFinite(a) == a.k = "num" /\ a.n > 0

\* strconv.ParseFloat(s, 64) on the decimal strings the model's responses use;
\* every other string is a syntax error.
ParseFloat(s) ==
    CASE s = "50000.0" -> [ok |-> TRUE, val |-> Num(50000, 1)]
      [] s = "0" -> [ok |-> TRUE, val |-> FZero]
      [] s = "-0" -> [ok |-> TRUE, val |-> NZero]
      [] s = "-50000.0" -> [ok |-> TRUE, val |-> Num(-50000, 1)]
      [] s = "Inf" -> [ok |-> TRUE, val |-> PInf]
      [] s = "NaN" -> [ok |-> TRUE, val |-> NaN]
      [] s = "5e-324" -> [ok |-> TRUE, val |-> Tiny]
      [] s = "0.002" -> [ok |-> TRUE, val |-> Num(1, 500)]
      [] s = "100.0" -> [ok |-> TRUE, val |-> Num(100, 1)]
      [] s = "0.26" -> [ok |-> TRUE, val |-> Num(13, 50)]
      [] OTHER -> [ok |-> FALSE, val |-> FZero]

\* ------------------------------------------------------------------ errors
\* An error value: text is the message, outermost label first; is holds the
\* sentinel identities errors.Is can still reach through the Unwrap chain.
NoErr == [text |-> <<>>, is |-> {}]

ErrOrderToSmall == [text |-> <<"order is too small">>, is |-> {"ErrOrderToSmall"}]
ErrInvalidAuth == [text |-> <<"invalid auth">>, is |-> {"ErrInvalidAuth"}]

\* errors.New(m): a fresh error identical to no sentinel.
ErrorsNew(m) == [text |-> <<m>>, is |-> {}]

\* fmt.Errorf(label + ": %w", e): the chain to e is kept.
ErrorfW(label, e) == [text |-> <<label>> \o e.text, is |-> e.is]

\* fmt.Errorf(label + ": %v", e): only e's text is kept.
ErrorfV(label, e) == [text |-> <<label>> \o e.text, is |-> {}]

WrapErr(e, label) == IF e # NoErr THEN ErrorfW(label, e) ELSE e

AddErr(e, label) == IF e # NoErr THEN ErrorfV(label, e) ELSE e

\* A classifier that overlooks white space around the invalid-key message.
toErrorIgnoringSpace(message) ==
    IF message = "EGeneral:Invalid arguments:volume minimum not met" THEN ErrOrderToSmall
    ELSE IF message \in {"EAPI:Invalid key", "EAPI:Invalid key ", " EAPI:Invalid key"}
    THEN ErrInvalidAuth
    ELSE ErrorsNew(message)

toError(message) ==
    IF message = "EGeneral:Invalid arguments:volume minimum not met" THEN ErrOrderToSmall
    ELSE IF message = "EAPI:Invalid key" THEN ErrInvalidAuth
    ELSE ErrorsNew(message)

\* Errors of the HTTP client and the JSON decoder.
ErrContextCanceled == [text |-> <<"context canceled">>, is |-> {"context.Canceled"}]
ErrTransport == ErrorsNew("transport failure")
ErrReadBody == ErrorsNew("unexpected EOF")
ErrJSONSyntax == ErrorsNew("invalid character")
ErrParseFloat == ErrorsNew("strconv.ParseFloat: invalid syntax")

\* ------------------------------------------------------------------ wire data
btcUSDPair == "XBTUSD"

\* Messages a provider error list may carry.
ProviderMessages ==
    {"EAPI:Invalid key", "EGeneral:Invalid arguments:volume minimum not met",
     "EAPI:Invalid nonce"}

\* Amounts (in cents) a caller may pass; the core itself validates nothing.
Amounts == {-500, 0, 500, 10000}

\* Decimal strings the ticker may give as the best ask price.
Asks == {"50000.0", "0.26", "0", "-0", "-50000.0", "Inf", "NaN", "5e-324", "abc"}

\* One element of the ticker's untyped error list ([]any).
ErrElem(isString, text) == [isString |-> isString, text |-> text]

TickerResponse(status, error, a) == [status |-> status, error |-> error, a |-> a]

\* What a Ticker round trip may yield while the caller's context is live.
TickerResponses ==
    {TickerResponse(st, <<>>, <<>>) : st \in {"transport", "read", "notjson"}}
    \cup {TickerResponse("json", <<ErrElem(TRUE, m)>>, <<>>) : m \in {"EAPI:Invalid key"}}
    \cup {TickerResponse("json", <<ErrElem(FALSE, "42")>>, <<>>)}
    \cup {TickerResponse("json", <<>>, <<>>)}
    \cup {TickerResponse("json", <<>>, <<q>>) : q \in Asks}

\* The round trip of a request whose context was cancelled.
TickerCanceled == TickerResponse("canceled", <<>>, <<>>)

AddOrderResponse(status, error, txid, order) ==
    [status |-> status, error |-> error, txid |-> txid, order |-> order]

AddOrderResponses ==
    {AddOrderResponse(st, <<>>, <<>>, "") : st \in {"transport", "read", "notjson"}}
    \cup {AddOrderResponse("json", <<m>>, <<>>, "") : m \in ProviderMessages}
    \cup {AddOrderResponse("json", <<>>, <<>>, "")}
    \cup {AddOrderResponse("json", <<>>, <<"OTX1">>, "buy XBTUSD @ market")}

OrderFields(fee, cost, price, vol) == [Fee |-> fee, Cost |-> cost, Price |-> price, Vol |-> vol]

\* The zero value of the result map's element type (a missing key).
ZeroOrderFields == OrderFields("", "", "", "")

QueryOrdersResponse(status, error, result) ==
    [status |-> status, error |-> error, result |-> result]

\* The result map is a function from transaction ids to order fields.
EmptyResult == [t \in {} |-> ZeroOrderFields]
ResultFor(t, f) == [u \in {t} |-> f]

QueryOrdersResponses ==
    {QueryOrdersResponse(st, <<>>, EmptyResult) : st \in {"transport", "read", "notjson"}}
    \cup {QueryOrdersResponse("json", <<m>>, EmptyResult) : m \in ProviderMessages}
    \cup {QueryOrdersResponse("json", <<>>, EmptyResult)}
    \cup {QueryOrdersResponse("json", <<>>, ResultFor("OTX1", f)) :
            f \in {OrderFields("0.26", "100.0", "50000.0", "0.002"),
                   OrderFields("0.26", "100.0", "abc", "0.002")}}
    \cup {QueryOrdersResponse("json", <<>>,
              ResultFor("OTX2", OrderFields("0.26", "100.0", "50000.0", "0.002")))}

\* ------------------------------------------------------------------ results
ExecuteOrderResponse(amt, tx, info, reqVol, vol, cost, fee, price) ==
    [AmountInCents |-> amt, TransactionID |-> tx, AdditionalInfo |-> info,
     RequestedVolume |-> reqVol, VolumePurchased |-> vol, Cost |-> cost, Fee |-> fee,
     Price |-> price]

ZeroResponse == ExecuteOrderResponse(0, "", "", FZero, FZero, FZero, FZero, FZero)

orderInfo(vol, cost, fee, price) ==
    [VolumePurchased |-> vol, Cost |-> cost, Fee |-> fee, Price |-> price]

ZeroOrderInfo == orderInfo(FZero, FZero, FZero, FZero)

\* ------------------------------------------------------------------ steps
\* fetchBuyVolume from the return of http.Do on: (volume, err), or a panic.
fetchBuyVolume(resp, amountInCents) ==
    LET out(v, e, p) == [volume |-> v, err |-> WrapErr(e, "fetchBuyVolume"), panic |-> p]
        quote == ParseFloat(resp.a[1])
        base == Num(1, 1)
        dollarExchangeRate == fdiv(base, quote.val)
        centsExchangeRate == fdiv(dollarExchangeRate, Num(100, 1))
    IN  IF resp.status = "canceled"
        THEN out(FZero, ErrorfW("failed to fetch buy volume", ErrContextCanceled), FALSE)
        ELSE IF resp.status = "transport"
        THEN out(FZero, ErrorfW("failed to fetch buy volume", ErrTransport), FALSE)
        ELSE IF resp.status = "read"
        THEN out(FZero, ErrorfW("failed to read response body", ErrReadBody), FALSE)
        ELSE IF resp.status = "notjson"
        THEN out(FZero, ErrorfW("failed to unmarshal response body", ErrJSONSyntax), FALSE)
        ELSE IF Len(resp.error) > 0
        THEN IF resp.error[1].isString
             THEN out(FZero, ErrorfW("failed to fetch buy volume",
                                     ErrorsNew(resp.error[1].text)), FALSE)
             ELSE out(FZero, NoErr, TRUE)
        ELSE IF Len(resp.a) = 0
        THEN out(FZero, NoErr, TRUE)
        ELSE IF ~quote.ok
        THEN out(FZero, ErrorfW("failed to parse quote", ErrParseFloat), FALSE)
        ELSE out(fmul(centsExchangeRate, float64(amountInCents)), NoErr, FALSE)

\* placeOrder from the return of http.Do on.
placeOrder(resp) ==
    LET out(t, d, e, p) ==
            [transactionID |-> t, orderDescription |-> d,
             err |-> WrapErr(e, "placeOrder"), panic |-> p]
    IN  IF resp.status = "transport"
        THEN out("", "", ErrorfW("failed to do request", ErrTransport), FALSE)
        ELSE IF resp.status = "read"
        THEN out("", "", ErrorfW("failed to read response body", ErrReadBody), FALSE)
        ELSE IF resp.status = "notjson"
        THEN out("", "", ErrorfW("failed to unmarshal response body", ErrJSONSyntax), FALSE)
        ELSE IF Len(resp.error) > 0
        THEN out("", "", ErrorfV("failed to place order", toError(resp.error[1])), FALSE)
        ELSE IF Len(resp.txid) = 0
        THEN out("", "", NoErr, TRUE)
        ELSE out(resp.txid[1], resp.order, NoErr, FALSE)

\* queryOrderInfo from the return of http.Do on.
\* A lookup that ignores the key and takes whatever order the map holds.
resultEntryAny(result, transactionID) ==
    IF DOMAIN result # {}
    THEN result[CHOOSE t \in DOMAIN result : TRUE] ELSE ZeroOrderFields

\* response.Result[transactionID]: a missing key yields the zero value.
resultEntry(result, transactionID) ==
    IF transactionID \in DOMAIN result THEN result[transactionID] ELSE ZeroOrderFields

queryOrderInfo(resp, transactionID) ==
    LET out(o, e) == [oi |-> o, err |-> WrapErr(e, "queryOrderInfo")]
        entry == resultEntry(resp.result, transactionID)
        fee == ParseFloat(entry.Fee)
        cost == ParseFloat(entry.Cost)
        price == ParseFloat(entry.Price)
        vol == ParseFloat(entry.Vol)
    IN  IF resp.status = "transport"
        THEN out(ZeroOrderInfo, ErrorfW("failed to do request", ErrTransport))
        ELSE IF resp.status = "read"
        THEN out(ZeroOrderInfo, ErrorfW("failed to read response body", ErrReadBody))
        ELSE IF resp.status = "notjson"
        THEN out(ZeroOrderInfo, ErrorfW("failed to unmarshal response body", ErrJSONSyntax))
        ELSE IF Len(resp.error) > 0
        THEN out(ZeroOrderInfo, ErrorfV("failed to query order info", toError(resp.error[1])))
        ELSE IF ~fee.ok
        THEN out(ZeroOrderInfo, ErrorfW("failed to parse fee", ErrParseFloat))
        ELSE IF ~cost.ok
        THEN out(orderInfo(FZero, FZero, fee.val, FZero),
                 ErrorfW("failed to parse cost", ErrParseFloat))
        ELSE IF ~price.ok
        THEN out(orderInfo(FZero, cost.val, fee.val, FZero),
                 ErrorfW("failed to parse price", ErrParseFloat))
        ELSE IF ~vol.ok
        THEN out(orderInfo(FZero, cost.val, fee.val, price.val),
                 ErrorfW("failed to parse volume", ErrParseFloat))
        ELSE out(orderInfo(vol.val, cost.val, fee.val, price.val), NoErr)

\* ------------------------------------------------------------------ strings
\* A Go string is the sequence of its bytes.
HasPrefix(s, prefix) == Len(s) >= Len(prefix) /\ SubSeq(s, 1, Len(prefix)) = prefix

TrimPrefix(s, prefix) ==
    IF HasPrefix(s, prefix) THEN SubSeq(s, Len(prefix) + 1, Len(s)) ELSE s

\* "awsssm"
ParamStorePrefix == <<97, 119, 115, 115, 115, 109>>
\* "awsssm://"
ParamStorePlaintextPrefix == <<97, 119, 115, 115, 115, 109, 58, 47, 47>>
\* "awsssme://"
ParamStoreEncryptedPrefix == <<97, 119, 115, 115, 115, 109, 101, 58, 47, 47>>

HasAWSParamStorePrefix(val) == HasPrefix(val, ParamStorePrefix)

\* A plaintext test that looks at the scheme name only.
HasAWSParamStorePlaintextPrefixLoose(key) == HasPrefix(key, ParamStorePrefix)

HasAWSParamStorePlaintextPrefix(key) == HasPrefix(key, ParamStorePlaintextPrefix)

HasAWSParamStoreEncryptedPrefix(key) == HasPrefix(key, ParamStoreEncryptedPrefix)

\* A strip that knows the plaintext prefix only.
StripAWSParamStorePrefixPlaintextOnly(key) ==
    IF HasPrefix(key, ParamStorePlaintextPrefix)
    THEN TrimPrefix(key, ParamStorePlaintextPrefix)
    ELSE key

StripAWSParamStorePrefix(key) ==
    IF HasPrefix(key, ParamStoreEncryptedPrefix)
    THEN TrimPrefix(key, ParamStoreEncryptedPrefix)
    ELSE IF HasPrefix(key, ParamStorePlaintextPrefix)
    THEN TrimPrefix(key, ParamStorePlaintextPrefix)
    ELSE key

\* Longest suffix appended to a scheme fragment to make a key.
MaxSuffix == 2

\* All byte strings of length at most n over the alphabet.
StringsUpTo(alphabet, n) == UNION {[1..m -> alphabet] : m \in 0..n}

\* Every leading part of the two scheme prefixes, the empty one included.
SchemeFragments ==
    {SubSeq(ParamStorePlaintextPrefix, 1, n) : n \in 0..Len(ParamStorePlaintextPrefix)}
    \cup {SubSeq(ParamStoreEncryptedPrefix, 1, n) : n \in 0..Len(ParamStoreEncryptedPrefix)}

\* Keys given to the prefix helpers: a scheme fragment followed by a few of the
\* bytes 'a', 'e', ':' and '/'.
Keys == {f \o t : f \in SchemeFragments, t \in StringsUpTo({97, 101, 58, 47}, MaxSuffix)}

\* ------------------------------------------------------------------ library calls
\* One application of a library function: its name, arguments and result.
Calc(op, in, out) == [op |-> op, in |-> in, out |-> out]

NoCalc == Calc("none", <<>>, <<>>)

\* Messages given to the error classifier: the provider's own and near-matches
\* of the two known ones in case and white space.
Messages ==
    ProviderMessages
    \cup {"eapi:invalid key", "EAPI:Invalid key ", " EAPI:Invalid key", "EAPI:Invalid  key",
          "EGENERAL:INVALID ARGUMENTS:VOLUME MINIMUM NOT MET",
          "EGeneral:Invalid arguments:volume minimum not met ",
          "EGeneral:Invalid arguments: volume minimum not met", "", "anything else"}

\* ------------------------------------------------------------------ base64
\* The value of a byte in the standard base64 alphabet, -1 if it has none.
B64Value(b) ==
    IF b >= 65 /\ b <= 90 THEN b - 65
    ELSE IF b >= 97 /\ b <= 122 THEN b - 71
    ELSE IF b >= 48 /\ b <= 57 THEN b + 4
    ELSE IF b = 43 THEN 62
    ELSE IF b = 47 THEN 63
    ELSE -1

\* The decoding of a string without line breaks: groups of four characters,
\* '=' padding only at the very end.  On corrupt input val is what the groups
\* before the corrupt one decoded to.
RECURSIVE decodeQuantum(_)
decodeQuantum(s) ==
    LET bad == [ok |-> FALSE, val |-> <<>>]
        v(i) == B64Value(s[i])
        rest == decodeQuantum(SubSeq(s, 5, Len(s)))
        b1 == v(1) * 4 + v(2) \div 16
        b2 == (v(2) % 16) * 16 + v(3) \div 4
        b3 == (v(3) % 4) * 64 + v(4)
    IN  IF s = <<>> THEN [ok |-> TRUE, val |-> <<>>]
        ELSE IF Len(s) < 4 THEN bad
        ELSE IF v(1) < 0 \/ v(2) < 0 THEN bad
        ELSE IF s[3] = 61
        THEN IF s[4] = 61 /\ Len(s) = 4 THEN [ok |-> TRUE, val |-> <<b1>>] ELSE bad
        ELSE IF v(3) < 0 THEN bad
        ELSE IF s[4] = 61
        THEN IF Len(s) = 4 THEN [ok |-> TRUE, val |-> <<b1, b2>>] ELSE bad
        ELSE IF v(4) < 0 THEN bad
        ELSE [ok |-> rest.ok, val |-> <<b1, b2, b3>> \o rest.val]

IsLineBreak(b) == b = 10 \/ b = 13

\* base64.StdEncoding.DecodeString: carriage returns and line feeds are
\* skipped wherever they stand, the rest is decoded.
DecodeString(s) == decodeQuantum(SelectSeq(s, LAMBDA b : ~IsLineBreak(b)))

ErrCorruptInput == ErrorsNew("illegal base64 data")

\* ------------------------------------------------------------------ parameter store
ErrAWSConfig == ErrorsNew("failed to load AWS configuration")
ErrParameterNotFound == ErrorsNew("ParameterNotFound")
ErrNotExist == ErrorsNew("no such file or directory")

\* One ssm GetParameter request.
GetParameterInput(name, withDecryption) == [Name |-> name, WithDecryption |-> withDecryption]

\* What a lookup gives: the value, the error, and the GetParameter requests made.
Fetched(val, e, calls) == [val |-> val, err |-> e, calls |-> calls]

\* The parameter store: whether the AWS configuration loads, and the parameters
\* it holds.
getAWSParamStoreParameter(key, encrypted, ssm) ==
    LET strippedKey == StripAWSParamStorePrefix(key)
        call == GetParameterInput(strippedKey, encrypted)
        out(v, e, calls) == Fetched(v, WrapErr(e, "dca.GetAWSParamStoreValue"), calls)
    IN  IF ~ssm.cfgOK
        THEN out(<<>>, ErrorfW("error loading AWS configuration", ErrAWSConfig), <<>>)
        ELSE IF strippedKey \notin DOMAIN ssm.params
        THEN out(<<>>, ErrorfV("failed to retrieve parameter from ssm", ErrParameterNotFound),
                 <<call>>)
        ELSE out(ssm.params[strippedKey], NoErr, <<call>>)

GetAWSParamStoreValue(key, ssm) ==
    LET r == IF HasAWSParamStorePlaintextPrefix(key)
             THEN getAWSParamStoreParameter(key, FALSE, ssm)
             ELSE IF HasAWSParamStoreEncryptedPrefix(key)
             THEN getAWSParamStoreParameter(key, TRUE, ssm)
             ELSE Fetched(<<>>, ErrorsNew("AWS Param Store key has an invalid prefix"), <<>>)
    IN  Fetched(r.val, AddErr(r.err, "dca.GetAWSParamStoreValue"), r.calls)

\* ------------------------------------------------------------------ configuration
\* Config of cmd/internal (and AppConfig of package dca).
Config(apiKey, privateKey, amount) ==
    [KrakenAPIKey |-> apiKey, KrakenPrivateKey |-> privateKey, OrderAmountInCents |-> amount]

ZeroConfig == Config(<<>>, <<>>, 0)

\* Config of cmd/cli.
CliConfig(logging, apiKey, privateKey, amount) ==
    [EnableLogging |-> logging, APIKey |-> apiKey, PrivateKey |-> privateKey,
     OrderAmountInCents |-> amount]

\* The string handed to the base64 decoder, if loading got that far.
\* No exit code: the entry point has not returned, or is not realMain.
NoExit == -1

RawKey(reached, key) == [reached |-> reached, key |-> key]

NoLoad == [entry |-> "none"]

\* The run of an entry point: where it stands, the config file it was given,
\* whether LoadConfig and Run were called and what they returned, and what it
\* reports: realMain's exit code, handleRequest's (string, error).
NoCommand ==
    [entry |-> "none", pc |-> "idle", configFile |-> <<>>, loaded |-> FALSE,
     loadErr |-> NoErr, ran |-> FALSE, runErr |-> NoErr, exit |-> NoExit, result |-> "",
     err |-> NoErr]

\* Longest private key tried.
MaxKeyLen == 4

\* The parameter name "k".
ParamName == <<107>>

\* "awsssm:/k" and "awsssme:/k", the forms the README gives.
DocumentedPlaintextKey == <<97, 119, 115, 115, 115, 109, 58, 47, 107>>
DocumentedEncryptedKey == <<97, 119, 115, 115, 115, 109, 101, 58, 47, 107>>

\* Private keys as configured: strings over 'Q', '=' and '!', some valid base64
\* and some not.
Base64Inputs == StringsUpTo({81, 61, 33}, MaxKeyLen)

ConfiguredAPIKeys ==
    {<<>>, ParamName, ParamStorePlaintextPrefix \o ParamName,
     ParamStoreEncryptedPrefix \o ParamName, DocumentedPlaintextKey, DocumentedEncryptedKey}

\* Private keys with line breaks: a blank line, and "QQ==" ended by one.
LineBreakInputs == {<<10>>, <<13, 10>>, <<81, 81, 61, 61, 10>>}

ConfiguredPrivateKeys ==
    Base64Inputs \cup LineBreakInputs \cup {ParamStorePlaintextPrefix \o ParamName, DocumentedPlaintextKey}

ConfiguredAmounts == {-500, 0, 500}

\* What the bytes of the configuration document decode to.
Document(status, cfg) == [status |-> status, config |-> cfg]

Documents ==
    {Document(st, ZeroConfig) : st \in {"unreadable", "notjson"}}
    \cup {Document("json", Config(a, p, n)) :
            a \in ConfiguredAPIKeys, p \in ConfiguredPrivateKeys, n \in ConfiguredAmounts}

\* "config.json" (any local path) is the one-byte name "c".
Filenames == {<<>>, <<99>>, ParamStorePlaintextPrefix \o ParamName}

NoParams == [n \in {} |-> <<>>]

SSM(cfgOK, params) == [cfgOK |-> cfgOK, params |-> params]

\* The parameter store holds nothing, or "k" with the value "QQ==" or "!".
SSMStores ==
    {SSM(FALSE, NoParams), SSM(TRUE, NoParams)}
    \cup {SSM(TRUE, [n \in {ParamName} |-> v]) : v \in {<<81, 81, 61, 61>>, <<33>>}}

\* strconv.Atoi on the values ORDER_AMOUNT_CENTS is given.
Atoi(s) ==
    CASE s = "500" -> [ok |-> TRUE, val |-> 500]
      [] s = "-500" -> [ok |-> TRUE, val |-> -500]
      [] s = "0" -> [ok |-> TRUE, val |-> 0]
      [] OTHER -> [ok |-> FALSE, val |-> 0]

\* strconv.ParseBool on the values ENABLE_LOGGING is given.
ParseBool(s) ==
    CASE s = "true" -> [ok |-> TRUE, val |-> TRUE]
      [] s = "false" -> [ok |-> TRUE, val |-> FALSE]
      [] OTHER -> [ok |-> FALSE, val |-> FALSE]

\* The environment of cmd/cli: whether .env loads, and the four variables.
Env(dotenv, logging, amount, apiKey, privateKey) ==
    [dotenv |-> dotenv, ENABLE_LOGGING |-> logging, ORDER_AMOUNT_CENTS |-> amount,
     KRAKEN_API_KEY |-> apiKey, KRAKEN_PRIVATE_KEY |-> privateKey]

Envs ==
    {Env(d, l, n, a, p) : d \in BOOLEAN, l \in {"", "true", "yes"},
                          n \in {"", "0", "500", "-500", "abc"},
                          a \in {<<>>, ParamName}, p \in Base64Inputs}

\* ------------------------------------------------------------------ state
VARIABLES
    now,        \* the wall clock (time.Now()), in nanoseconds
    boundTime,  \* the time.Time the method value time.Now().UnixNano was bound to
    pc,         \* per caller: where its ExecuteOrder call stands
    id,         \* per caller: the number of its current call
    order,      \* per caller: order.AmountInCents of its current call
    ctxDone,    \* per caller: whether the ctx it passed has been cancelled
    res,        \* per caller: the named result res of ExecuteOrder
    err,        \* per caller: the named result err of ExecuteOrder
    started,    \* number of calls started so far
    finished,   \* calls that have returned (or panicked)
    before,     \* per call: the calls that had returned when it started
    steps,      \* per call: the outcome of each step, in order
    req,        \* per caller: the HTTP request it has in flight
    returned,   \* every value GenerateNonce has returned, in order
    sent,       \* which requests left the client, in order, with their nonces
    accepted,   \* calls whose AddOrder the exchange acknowledged
    crashed,    \* an unrecovered panic has ended the process
    calc,       \* the library function applied last, with its arguments and result
    signed,     \* every generateSignature call so far: its arguments and result
    config,     \* Main.Config of the command
    load,       \* what the command's configuration loading did
    command,    \* the run of an entry point (realMain or handleRequest)
    exchange,   \* per caller: what its private requests carried and were answered
    providerConfig, \* the KrakenProviderConfig the provider was constructed from
    provider    \* the provider's fields APIKey and APISecretKey

\* The state of the provider and of its callers.
orderVars ==
    <<now, boundTime, pc, id, order, ctxDone, res, err, started, finished, before,
      steps, req, returned, sent, accepted, crashed, exchange, providerConfig, provider>>

\* The state outside the provider.
libVars == <<calc, signed, config, load, command>>

vars ==
    <<now, boundTime, pc, id, order, ctxDone, res, err, started, finished, before,
      steps, req, returned, sent, accepted, crashed, calc, signed, config, load,
      exchange, providerConfig, provider, command>>

\* ------------------------------------------------------------------ signing
\* Text that is hashed is a sequence of characters; a form key, which the code
\* fixes, is kept as one token.  The secret key may hold any byte and is a
\* sequence of byte values.
Digits == <<"0", "1", "2", "3", "4", "5", "6", "7", "8", "9">>

\* strconv.FormatInt(i, 10).
RECURSIVE FormatInt(_)
FormatInt(i) ==
    IF i < 0 THEN <<"-">> \o FormatInt(-i)
    ELSE IF i < 10 THEN <<Digits[i + 1]>>
    ELSE Append(FormatInt(i \div 10), Digits[(i % 10) + 1])

\* url.QueryEscape of one character.
EscapeChar(ch) ==
    CASE ch = " " -> <<"+">>
      [] ch = "&" -> <<"%", "2", "6">>
      [] ch = "=" -> <<"%", "3", "D">>
      [] ch = "+" -> <<"%", "2", "B">>
      [] ch = "%" -> <<"%", "2", "5">>
      [] OTHER -> <<ch>>

RECURSIVE QueryEscape(_)
QueryEscape(v) ==
    IF v = <<>> THEN <<>> ELSE EscapeChar(Head(v)) \o QueryEscape(Tail(v))

\* The form keys the provider sets, in the sorted order url.Values.Encode uses.
SortedKeys == <<"nonce", "ordertype", "pair", "trades", "txid", "type", "volume">>

RECURSIVE EncodeFrom(_, _)
EncodeFrom(data, i) ==
    IF i > Len(SortedKeys) THEN <<>>
    ELSE LET k == SortedKeys[i]
             rest == EncodeFrom(data, i + 1)
         IN  IF k \notin DOMAIN data THEN rest
             ELSE <<k, "=">> \o QueryEscape(data[k])
                  \o (IF rest = <<>> THEN <<>> ELSE <<"&">> \o rest)

\* url.Values.Encode(): key=value pairs joined by "&", sorted by key.
Encode(data) == EncodeFrom(data, 1)

\* SHA-256 taken as collision-free: the digest stands for what was written.
sha256Sum(written) == [alg |-> "sha256", of |-> written]

\* HMAC pads a key shorter than the hash's block with zero bytes, so trailing
\* zero bytes of such a key make no difference.
RECURSIVE PadKey(_)
PadKey(key) ==
    IF key # <<>> /\ key[Len(key)] = 0 THEN PadKey(SubSeq(key, 1, Len(key) - 1)) ELSE key

\* HMAC-SHA512 taken as collision-free in the padded key and the message.
hmacSum(key, written) == [alg |-> "hmac-sha512", key |-> PadKey(key), of |-> written]

\* base64.StdEncoding.EncodeToString: one-to-one on its input.
EncodeToString(sum) == [alg |-> "base64", of |-> sum]

\* A signer whose hash object is kept across calls, so that the digest also
\* covers what earlier calls wrote.
generateSignatureSharedHash(APISecretKey, path, data, nonce) ==
    LET hash == sha256Sum(FormatInt(Len(signed)) \o FormatInt(nonce) \o Encode(data))
        mac == hmacSum(APISecretKey, [path |-> path, hash |-> hash])
    IN  EncodeToString(mac)

\* A signer that leaves the nonce out of the digest.
generateSignatureNoNonce(APISecretKey, path, data, nonce) ==
    LET hash == sha256Sum(Encode(data))
        mac == hmacSum(APISecretKey, [path |-> path, hash |-> hash])
    IN  EncodeToString(mac)

\* generateSignature; the message of the MAC is the path followed by the
\* fixed-length digest.
generateSignature(APISecretKey, path, data, nonce) ==
    LET hash == sha256Sum(FormatInt(nonce) \o Encode(data))
        mac == hmacSum(APISecretKey, [path |-> path, hash |-> hash])
    IN  EncodeToString(mac)

\* The bytes of the strings the provider puts into its forms.
Bytes(s) ==
    CASE s = "XBTUSD" -> <<"X", "B", "T", "U", "S", "D">>
      [] s = "buy" -> <<"b", "u", "y">>
      [] s = "market" -> <<"m", "a", "r", "k", "e", "t">>
      [] s = "true" -> <<"t", "r", "u", "e">>
      [] s = "OTX1" -> <<"O", "T", "X", "1">>
      [] s = "" -> <<>>

\* Digits after the decimal point that the shortest representation of a
\* float64 is followed to.
FractionDigits == 17

\* The decimal digits of r/d (0 <= r < d), by long division.
RECURSIVE Fraction(_, _, _)
Fraction(r, d, k) ==
    IF r = 0 \/ k = 0 THEN <<>>
    ELSE <<Digits[((r * 10) \div d) + 1]>> \o Fraction((r * 10) % d, d, k - 1)

\* strconv.FormatFloat(f, 'f', -1, 64): no exponent, as many digits as needed.
FormatFloat(f) ==
    CASE f.k = "nan" -> <<"N", "a", "N">>
      [] f.k = "pinf" -> <<"+", "I", "n", "f">>
      [] f.k = "ninf" -> <<"-", "I", "n", "f">>
      [] f.k = "nzero" -> <<"-", "0">>
      [] f.k = "tiny" -> <<"0", ".">> \o [i \in 1..323 |-> "0"] \o <<"5">>
      [] f.k = "num" ->
            LET a == Abs(f.n)
                frac == Fraction(a % f.d, f.d, FractionDigits)
            IN  (IF f.n < 0 THEN <<"-">> ELSE <<>>)
                \o FormatInt(a \div f.d)
                \o (IF frac = <<>> THEN <<>> ELSE <<".">> \o frac)

\* Configurations a provider is constructed from; a credential is a Go string,
\* a sequence of bytes.
ProviderConfigs ==
    {[APIKey |-> <<7>>, APISecret |-> <<1>>], [APIKey |-> <<8>>, APISecret |-> <<2>>]}

\* Before the program has constructed a provider.
NoProviderConfig == [APIKey |-> <<>>, APISecret |-> <<>>]
NoProvider == [APIKey |-> <<>>, APISecretKey |-> <<>>, constructed |-> FALSE]

\* A constructor that takes the secret for the key and the key for the secret.
NewKrakenProviderSwapped(c) ==
    [APIKey |-> c.APISecret, APISecretKey |-> c.APIKey, constructed |-> TRUE]

\* NewKrakenProvider: the credentials are copied from the configuration.
NewKrakenProvider(c) ==
    [APIKey |-> c.APIKey, APISecretKey |-> c.APISecret, constructed |-> TRUE]

CallIds == 1..MaxCalls

InFlight == {"fetchBuyVolume", "tickerWait", "placeOrder", "addOrderWait",
             "queryOrderInfo", "queryWait"}

Step(ep, ev, msg) == [ep |-> ep, ev |-> ev, msg |-> msg]

\* An HTTP request: its endpoint, its query or form parameters, the context it
\* is bound to, and whether the caller's ctx was already cancelled when it left.
Request(ep, form, ctx, afterCancel) ==
    [ep |-> ep, form |-> form, ctx |-> ctx, afterCancel |-> afterCancel]

NoRequest == Request("none", <<>>, "none", FALSE)

\* A private request as it leaves: besides the above, the path of its URL, its
\* body and its API-Key and API-Sign headers.
PrivateRequest(ep, form, ctx, afterCancel, path, body, header) ==
    [ep |-> ep, form |-> form, ctx |-> ctx, afterCancel |-> afterCancel,
     path |-> path, body |-> body, header |-> header]

\* What a call's two private round trips carried: the volume field of the
\* AddOrder body, the txid list of its answer, the txid field of the
\* QueryOrders body and the result map of its answer.
Exchange(volume, txid, queried, result) ==
    [volume |-> volume, txid |-> txid, queried |-> queried, result |-> result]

NoExchange == Exchange(<<>>, <<>>, <<>>, EmptyResult)

Header(apiKey, apiSign) == [APIKey |-> apiKey, APISign |-> apiSign]

\* The path of the URL placeOrder posts to, and the path it signs.
AddOrderURLPath == "/0/private/AddOrder"
\* A signer given the path of another API version.
AddOrderSignPathOther == "/1/private/AddOrder"
AddOrderSignPath == "/0/private/AddOrder"

\* The path of the URL queryOrderInfo posts to, and the path it signs.
QueryOrdersURLPath == "/0/private/QueryOrders"
QueryOrdersSignPath == "/0/private/QueryOrders"

Private == {"AddOrder", "QueryOrders"}

PublicSent(call, ep) == [call |-> call, ep |-> ep]

PrivateSent(call, ep, nonce) == [call |-> call, ep |-> ep, nonce |-> nonce]

\* The provider's default nonce source, NewKrakenProvider's
\* GenerateNonce: time.Now().UnixNano.  A method value binds its receiver when
\* it is evaluated, so every call reads the Time captured at construction.
GenerateNonce == boundTime

\* A queryOrderInfo that takes the generator's value as it is.
QueryNonceNoIncrement == GenerateNonce

\* queryOrderInfo's nonce.
QueryNonce == GenerateNonce + 1

\* ExecuteOrder's control flow after each step: where the call goes next.
AfterFetchBuyVolume(e) == IF e # NoErr THEN "Failed" ELSE "placeOrder"

\* An ExecuteOrder that drops placeOrder's error and goes on to the query.
AfterPlaceOrderIgnoringErr(e) == "queryOrderInfo"

\* An ExecuteOrder that tries placeOrder again when it failed.
AfterPlaceOrderRetrying(e) == IF e # NoErr THEN "placeOrder" ELSE "queryOrderInfo"

AfterPlaceOrder(e) == IF e # NoErr THEN "Failed" ELSE "queryOrderInfo"

AfterQueryOrderInfo(e) == IF e # NoErr THEN "Failed" ELSE "Completed"

Outcome(e) == IF e # NoErr THEN "failed" ELSE "ok"

FirstMessage(error) == IF Len(error) > 0 THEN error[1] ELSE ""

Init ==
    /\ now = 1
    /\ boundTime = now
    /\ pc = [c \in Callers |-> "idle"]
    /\ id = [c \in Callers |-> 0]
    /\ order = [c \in Callers |-> 0]
    /\ ctxDone = [c \in Callers |-> FALSE]
    /\ res = [c \in Callers |-> ZeroResponse]
    /\ err = [c \in Callers |-> NoErr]
    /\ started = 0
    /\ finished = {}
    /\ before = [i \in CallIds |-> {}]
    /\ steps = [i \in CallIds |-> <<>>]
    /\ req = [c \in Callers |-> NoRequest]
    /\ returned = <<>>
    /\ sent = <<>>
    /\ accepted = {}
    /\ crashed = FALSE
    /\ calc = NoCalc
    /\ signed = <<>>
    /\ config = ZeroConfig
    /\ load = NoLoad
    /\ exchange = [c \in Callers |-> NoExchange]
    /\ command = NoCommand
    /\ providerConfig = NoProviderConfig
    /\ provider = NoProvider

\* The program constructs its provider: p := NewKrakenProvider(cfg).  The nonce
\* source is bound here (GenerateNonce: time.Now().UnixNano).
New(c) ==
    /\ provider = NoProvider
    /\ providerConfig' = c
    /\ provider' = NewKrakenProvider(c)
    /\ boundTime' = now
    /\ UNCHANGED <<now, pc, id, order, ctxDone, res, err, started, finished, before,
                   steps, req, returned, sent, accepted, crashed, exchange, libVars>>

\* A caller invokes ExecuteOrder(ctx, order).
ExecuteOrder(c, amountInCents) ==
    /\ ~crashed
    /\ provider.constructed
    /\ pc[c] = "idle"
    /\ started < MaxCalls
    /\ started' = started + 1
    /\ id' = [id EXCEPT ![c] = started + 1]
    /\ before' = [before EXCEPT ![started + 1] = finished]
    /\ order' = [order EXCEPT ![c] = amountInCents]
    /\ pc' = [pc EXCEPT ![c] = "fetchBuyVolume"]
    /\ UNCHANGED <<now, boundTime, ctxDone, res, err, finished, steps, req, returned,
                   sent, accepted, crashed, exchange, providerConfig, provider, libVars>>

\* The caller cancels the context of its call in flight.
Cancel(c) ==
    /\ ~crashed
    /\ pc[c] \in InFlight
    /\ ~ctxDone[c]
    /\ ctxDone' = [ctxDone EXCEPT ![c] = TRUE]
    /\ UNCHANGED <<now, boundTime, pc, id, order, res, err, started, finished, before,
                   steps, req, returned, sent, accepted, crashed, exchange, providerConfig, provider, libVars>>

\* The rest of ExecuteOrder once fetchBuyVolume has returned r.
FetchReturned(c, r) ==
    LET next == IF r.panic THEN "Panicked" ELSE AfterFetchBuyVolume(r.err)
        ev == IF r.panic THEN "panicked" ELSE Outcome(r.err)
    IN  /\ pc' = [pc EXCEPT ![c] = next]
        /\ crashed' = r.panic
        /\ steps' = [steps EXCEPT ![id[c]] = Append(@, Step("Ticker", ev, ""))]
        /\ err' = [err EXCEPT ![c] =
                     IF next = "Failed" THEN WrapErr(r.err, "KrakenProvider.ExecuteOrder")
                     ELSE NoErr]
        /\ res' = [res EXCEPT ![c] =
                     IF next = "placeOrder"
                     THEN [@ EXCEPT !.AmountInCents = order[c], !.RequestedVolume = r.volume]
                     ELSE @]
        /\ finished' = IF next \in {"Failed", "Panicked"} THEN finished \cup {id[c]}
                       ELSE finished

\* fetchBuyVolume up to http.Do: the Ticker GET carries the caller's context,
\* so a cancelled context fails the call before any request leaves.
TickerDo(c) ==
    /\ ~crashed
    /\ pc[c] = "fetchBuyVolume"
    /\ IF ctxDone[c]
       THEN /\ FetchReturned(c, fetchBuyVolume(TickerCanceled, order[c]))
            /\ UNCHANGED <<req, sent>>
       ELSE /\ req' = [req EXCEPT ![c] =
                         Request("Ticker", [pair |-> btcUSDPair], "caller", FALSE)]
            /\ sent' = Append(sent, PublicSent(id[c], "Ticker"))
            /\ pc' = [pc EXCEPT ![c] = "tickerWait"]
            /\ UNCHANGED <<res, err, finished, steps, crashed>>
    /\ UNCHANGED <<now, boundTime, id, order, ctxDone, started, before, returned, accepted, exchange, providerConfig, provider, libVars>>

\* The Ticker round trip ends (a round trip takes time); fetchBuyVolume and
\* ExecuteOrder run on.  A request whose context is cancelled is aborted.
TickerReply(c, resp) ==
    /\ ~crashed
    /\ pc[c] = "tickerWait"
    /\ ctxDone[c] <=> resp = TickerCanceled
    /\ FetchReturned(c, fetchBuyVolume(resp, order[c]))
    /\ req' = [req EXCEPT ![c] = NoRequest]
    /\ now' = now + 1
    /\ UNCHANGED <<boundTime, id, order, ctxDone, started, before, returned, sent,
                   accepted, exchange, providerConfig, provider, libVars>>

\* placeOrder up to http.Do: the request is made with http.NewRequest, which
\* binds it to context.Background, not to ctx.
AddOrderDo(c) ==
    LET nonce == GenerateNonce
        params == [pair |-> btcUSDPair, type |-> "buy", volume |-> res[c].RequestedVolume,
                   ordertype |-> "market", nonce |-> nonce]
        \* params as url.Values: every value a string
        values == [pair |-> Bytes(btcUSDPair), type |-> Bytes("buy"),
                   volume |-> FormatFloat(res[c].RequestedVolume),
                   ordertype |-> Bytes("market"), nonce |-> FormatInt(nonce)]
        header == Header(provider.APIKey,
                         generateSignature(provider.APISecretKey, AddOrderSignPath,
                                           values, nonce))
    IN  /\ ~crashed
        /\ pc[c] = "placeOrder"
        /\ returned' = Append(returned, nonce)
        /\ req' = [req EXCEPT ![c] =
                     PrivateRequest("AddOrder", params, "background", ctxDone[c],
                                    AddOrderURLPath, Encode(values), header)]
        /\ sent' = Append(sent, PrivateSent(id[c], "AddOrder", nonce))
        /\ pc' = [pc EXCEPT ![c] = "addOrderWait"]
        /\ exchange' = [exchange EXCEPT ![c] = [@ EXCEPT !.volume = values.volume]]
        /\ UNCHANGED <<now, boundTime, id, order, ctxDone, res, err, started, finished,
                       before, steps, accepted, crashed, providerConfig, provider, libVars>>

\* The AddOrder round trip ends; placeOrder and ExecuteOrder run on.
AddOrderReply(c, resp) ==
    LET r == placeOrder(resp)
        next == IF r.panic THEN "Panicked" ELSE AfterPlaceOrder(r.err)
        ev == IF r.panic THEN "panicked" ELSE Outcome(r.err)
    IN  /\ ~crashed
        /\ pc[c] = "addOrderWait"
        /\ accepted' = IF resp.status = "json" /\ Len(resp.error) = 0
                       THEN accepted \cup {id[c]} ELSE accepted
        /\ pc' = [pc EXCEPT ![c] = next]
        /\ crashed' = r.panic
        /\ steps' = [steps EXCEPT ![id[c]] =
                       Append(@, Step("AddOrder", ev, FirstMessage(resp.error)))]
        /\ res' = [res EXCEPT ![c] =
                     IF r.panic THEN @
                     ELSE [@ EXCEPT !.TransactionID = r.transactionID,
                                    !.AdditionalInfo = r.orderDescription]]
        /\ err' = [err EXCEPT ![c] =
                     IF next = "Failed" THEN WrapErr(r.err, "KrakenProvider.ExecuteOrder")
                     ELSE NoErr]
        /\ finished' = IF next \in {"Failed", "Panicked"} THEN finished \cup {id[c]}
                       ELSE finished
        /\ req' = [req EXCEPT ![c] = NoRequest]
        /\ now' = now + 1
        /\ exchange' = [exchange EXCEPT ![c] = [@ EXCEPT !.txid = resp.txid]]
        /\ UNCHANGED <<boundTime, id, order, ctxDone, started, before, returned, sent, providerConfig, provider, libVars>>

\* An assembly that takes the cost for the fee and the fee for the cost.
withOrderInfoSwapped(r, oi) ==
    [r EXCEPT !.Price = oi.Price, !.Cost = oi.Fee, !.Fee = oi.Cost,
              !.VolumePurchased = oi.VolumePurchased]

\* ExecuteOrder's last step: the order info is copied into the response.
withOrderInfo(r, oi) ==
    [r EXCEPT !.Price = oi.Price, !.Cost = oi.Cost, !.Fee = oi.Fee,
              !.VolumePurchased = oi.VolumePurchased]

\* queryOrderInfo up to http.Do; like AddOrder, not bound to ctx.
QueryOrdersDo(c) ==
    LET nonce == QueryNonce
        params == [txid |-> res[c].TransactionID, nonce |-> nonce, trades |-> "true"]
        \* params as url.Values: every value a string
        values == [txid |-> Bytes(res[c].TransactionID), nonce |-> FormatInt(nonce),
                   trades |-> Bytes("true")]
        header == Header(provider.APIKey,
                         generateSignature(provider.APISecretKey, QueryOrdersSignPath,
                                           values, nonce))
    IN  /\ ~crashed
        /\ pc[c] = "queryOrderInfo"
        /\ returned' = Append(returned, GenerateNonce)
        /\ req' = [req EXCEPT ![c] =
                     PrivateRequest("QueryOrders", params, "background", ctxDone[c],
                                    QueryOrdersURLPath, Encode(values), header)]
        /\ sent' = Append(sent, PrivateSent(id[c], "QueryOrders", nonce))
        /\ pc' = [pc EXCEPT ![c] = "queryWait"]
        /\ exchange' = [exchange EXCEPT ![c] = [@ EXCEPT !.queried = values.txid]]
        /\ UNCHANGED <<now, boundTime, id, order, ctxDone, res, err, started, finished,
                       before, steps, accepted, crashed, providerConfig, provider, libVars>>

\* The QueryOrders round trip ends; queryOrderInfo and ExecuteOrder run on.
QueryOrdersReply(c, resp) ==
    LET r == queryOrderInfo(resp, res[c].TransactionID)
        next == AfterQueryOrderInfo(r.err)
    IN  /\ ~crashed
        /\ pc[c] = "queryWait"
        /\ pc' = [pc EXCEPT ![c] = next]
        /\ steps' = [steps EXCEPT ![id[c]] =
                       Append(@, Step("QueryOrders", Outcome(r.err), FirstMessage(resp.error)))]
        /\ res' = [res EXCEPT ![c] =
                     IF next = "Completed" THEN withOrderInfo(@, r.oi) ELSE @]
        /\ err' = [err EXCEPT ![c] =
                     IF next = "Failed" THEN WrapErr(r.err, "KrakenProvider.ExecuteOrder")
                     ELSE NoErr]
        /\ finished' = IF next \in {"Failed", "Completed"} THEN finished \cup {id[c]}
                       ELSE finished
        /\ req' = [req EXCEPT ![c] = NoRequest]
        /\ now' = now + 1
        /\ exchange' = [exchange EXCEPT ![c] = [@ EXCEPT !.result = resp.result]]
        /\ UNCHANGED <<boundTime, id, order, ctxDone, started, before, returned, sent,
                       accepted, crashed, providerConfig, provider, libVars>>

\* The caller takes (res, err) and is free to call again.
Return(c) ==
    /\ ~crashed
    /\ pc[c] \in {"Completed", "Failed"}
    /\ pc' = [pc EXCEPT ![c] = "idle"]
    /\ id' = [id EXCEPT ![c] = 0]
    /\ order' = [order EXCEPT ![c] = 0]
    /\ ctxDone' = [ctxDone EXCEPT ![c] = FALSE]
    /\ res' = [res EXCEPT ![c] = ZeroResponse]
    /\ err' = [err EXCEPT ![c] = NoErr]
    /\ exchange' = [exchange EXCEPT ![c] = NoExchange]
    /\ UNCHANGED <<now, boundTime, started, finished, before, steps, req, returned, sent,
                   accepted, crashed, providerConfig, provider, libVars>>

\* ------------------------------------------------------------------ library steps
\* toError is applied to a message.
ApplyToError(message) ==
    /\ calc = NoCalc
    /\ calc' = Calc("toError", <<message>>, toError(message))
    /\ UNCHANGED <<orderVars, signed, config, load, command>>

\* fetchBuyVolume runs on the return of http.Do.
ApplyFetchBuyVolume(resp, amountInCents) ==
    /\ calc = NoCalc
    /\ calc' = Calc("fetchBuyVolume", <<resp, amountInCents>>,
                    fetchBuyVolume(resp, amountInCents))
    /\ UNCHANGED <<orderVars, signed, config, load, command>>

\* placeOrder runs on the return of http.Do.
ApplyPlaceOrder(resp) ==
    /\ calc = NoCalc
    /\ calc' = Calc("placeOrder", <<resp>>, placeOrder(resp))
    /\ UNCHANGED <<orderVars, signed, config, load, command>>

\* Field values for the conversion step: each of the four fields well formed
\* or not, with distinct values so that a swap shows.
FieldCases ==
    {OrderFields(fee, cost, price, vol) :
        fee \in {"0.26", "abc"}, cost \in {"100.0", ""},
        price \in {"50000.0", "abc"}, vol \in {"0.002", "abc"}}

GoodFields == OrderFields("0.26", "100.0", "50000.0", "0.002")

\* Query responses seen by the conversion step: the usual ones, one order
\* with every combination of fields, and a map that holds another order too.
QueryFieldResponses ==
    QueryOrdersResponses
    \cup {QueryOrdersResponse("json", <<>>, ResultFor("OTX1", f)) : f \in FieldCases}
    \cup {QueryOrdersResponse("json", <<>>,
              [t \in {"OTX1", "OTX2"} |-> IF t = "OTX1" THEN f ELSE GoodFields]) :
              f \in FieldCases}

TransactionIDs == {"OTX1", "OTX2", "OTX3"}

\* queryOrderInfo is applied to one response for one transaction id.
ApplyQueryOrderInfo(resp, transactionID) ==
    /\ calc = NoCalc
    /\ calc' = Calc("queryOrderInfo", <<resp, transactionID>>,
                    queryOrderInfo(resp, transactionID))
    /\ UNCHANGED <<orderVars, signed, config, load, command>>

\* The three prefix predicates are applied to a key.
ApplyHasPrefix(key) ==
    /\ calc = NoCalc
    /\ calc' = Calc("HasAWSParamStorePrefix", <<key>>,
                    [any |-> HasAWSParamStorePrefix(key),
                     plaintext |-> HasAWSParamStorePlaintextPrefix(key),
                     encrypted |-> HasAWSParamStoreEncryptedPrefix(key)])
    /\ UNCHANGED <<orderVars, signed, config, load, command>>

\* StripAWSParamStorePrefix is applied to a key.
ApplyStrip(key) ==
    /\ calc = NoCalc
    /\ calc' = Calc("StripAWSParamStorePrefix", <<key>>, StripAWSParamStorePrefix(key))
    /\ UNCHANGED <<orderVars, signed, config, load, command>>

\* ------------------------------------------------------------------ signer steps
\* Number of generateSignature calls followed.
MaxSigned == 2

SecretKeys == {<<1>>, <<1, 0>>, <<2>>}

SignPaths == {"/0/private/AddOrder", "/0/private/QueryOrders"}

SignNonces == {1, 12}

\* Forms given to the signer: a QueryOrders form with a plain or a reserved
\* character in the transaction id, and an AddOrder form.
SignForms ==
    {[nonce |-> FormatInt(n), trades |-> <<"t", "r", "u", "e">>, txid |-> t] :
        n \in SignNonces, t \in {<<"a">>, <<"a", "&", "b">>}}
    \cup {[nonce |-> FormatInt(n), ordertype |-> <<"m", "a", "r", "k", "e", "t">>,
           pair |-> <<"X", "B", "T", "U", "S", "D">>, type |-> <<"b", "u", "y">>,
           volume |-> <<"0", ".", "0", "0", "2">>] : n \in SignNonces}

Signed(key, path, data, nonce, signature) ==
    [key |-> key, path |-> path, data |-> data, nonce |-> nonce, signature |-> signature]

\* The provider signs a private request.
Sign(key, path, data, nonce) ==
    /\ Len(signed) < MaxSigned
    /\ signed' = Append(signed, Signed(key, path, data, nonce,
                                       generateSignature(key, path, data, nonce)))
    /\ UNCHANGED <<orderVars, calc, config, load, command>>

\* ------------------------------------------------------------------ configuration steps
\* A loader that works on m.Config itself, so that a failed load leaves what it
\* had read so far.
StoreConfigInPlace(stored, local, e) == local

\* m.Config = config is LoadConfig's last statement before return nil: every
\* error return leaves m.Config as it was.
StoreConfig(stored, local, e) == IF e = NoErr THEN local ELSE stored

\* Main.LoadConfig of cmd/internal (App.LoadConfig of package dca is the same
\* code): doc is what the bytes read from filename decode to.
LoadConfig(filename, doc, ssm) ==
    LET fromAWS == HasAWSParamStorePrefix(filename)
        b == IF fromAWS THEN GetAWSParamStoreValue(filename, ssm)
             ELSE Fetched(<<>>, IF doc.status = "unreadable" THEN ErrNotExist ELSE NoErr, <<>>)
        cfg == doc.config
        api == IF HasAWSParamStorePrefix(cfg.KrakenAPIKey)
               THEN GetAWSParamStoreValue(cfg.KrakenAPIKey, ssm)
               ELSE Fetched(cfg.KrakenAPIKey, NoErr, <<>>)
        priv == IF HasAWSParamStorePrefix(cfg.KrakenPrivateKey)
                THEN GetAWSParamStoreValue(cfg.KrakenPrivateKey, ssm)
                ELSE Fetched(cfg.KrakenPrivateKey, NoErr, <<>>)
        data == DecodeString(priv.val)
        privateKey == IF data.ok THEN data.val ELSE priv.val
        done(c, e, calls, raw) == [Config |-> c, err |-> e, calls |-> calls, raw |-> raw]
        \* the local variable config at each return
        fail(e, calls, local) == done(local, e, calls, RawKey(FALSE, <<>>))
        resolved == [cfg EXCEPT !.KrakenAPIKey = api.val]
        r == IF filename = <<>>
             THEN fail(ErrorsNew("must specify a config file path"), <<>>, ZeroConfig)
             ELSE IF fromAWS /\ b.err # NoErr
             THEN fail(ErrorfV("failed to get AWS param store value for kraken api key", b.err),
                       b.calls, ZeroConfig)
             ELSE IF b.err # NoErr
             THEN fail(b.err, b.calls, ZeroConfig)
             ELSE IF doc.status = "notjson"
             THEN fail(ErrJSONSyntax, b.calls, ZeroConfig)
             ELSE IF cfg.OrderAmountInCents <= 0
             THEN fail(ErrorsNew("orderAmountInCents cannot be less than or equal to zero"),
                       b.calls, cfg)
             ELSE IF cfg.KrakenAPIKey = <<>>
             THEN fail(ErrorsNew("krakenApiKey is required"), b.calls, cfg)
             ELSE IF api.err # NoErr
             THEN fail(ErrorfV("failed to get AWS param store value for kraken api key",
                               api.err), b.calls \o api.calls, cfg)
             ELSE IF cfg.KrakenPrivateKey = <<>>
             THEN fail(ErrorsNew("krakenPrivateKey is required"), b.calls \o api.calls,
                       resolved)
             ELSE IF priv.err # NoErr
             THEN fail(ErrorfV("failed to get AWS param store value", priv.err),
                       b.calls \o api.calls \o priv.calls, resolved)
             ELSE done(Config(api.val, privateKey, cfg.OrderAmountInCents), NoErr,
                       b.calls \o api.calls \o priv.calls, RawKey(TRUE, priv.val))
    IN  /\ load = NoLoad
        /\ fromAWS => doc.status # "unreadable"
        /\ config' = StoreConfig(config, r.Config, r.err)
        /\ load' = [entry |-> "LoadConfig", filename |-> filename, doc |-> doc, ssm |-> ssm,
                    err |-> r.err, calls |-> r.calls, raw |-> r.raw]
        /\ UNCHANGED <<orderVars, calc, signed>>

\* Main.Run of cmd/cli up to the construction of the provider: the settings are
\* read from the environment, field by field.
CliRun(env) ==
    LET logging == ParseBool(env.ENABLE_LOGGING)
        amount == Atoi(env.ORDER_AMOUNT_CENTS)
        data == DecodeString(env.KRAKEN_PRIVATE_KEY)
        zero == CliConfig(FALSE, <<>>, <<>>, 0)
        c1 == IF env.ENABLE_LOGGING # "" THEN [zero EXCEPT !.EnableLogging = logging.val]
              ELSE zero
        hasAmount == env.ORDER_AMOUNT_CENTS # "" /\ env.ORDER_AMOUNT_CENTS # "0"
        c2 == IF hasAmount THEN [c1 EXCEPT !.OrderAmountInCents = amount.val] ELSE c1
        c3 == [c2 EXCEPT !.APIKey = env.KRAKEN_API_KEY, !.PrivateKey = data.val]
        done(c, e, raw) == [Config |-> c, err |-> e, raw |-> raw]
        r == IF ~env.dotenv
             THEN done(zero, ErrorfW("loading .env file", ErrNotExist), RawKey(FALSE, <<>>))
             ELSE IF env.ENABLE_LOGGING # "" /\ ~logging.ok
             THEN done(c1, ErrorsNew("failed to parse ENABLE_LOGGING environment variable"),
                       RawKey(FALSE, <<>>))
             ELSE IF hasAmount /\ ~amount.ok
             THEN done(c2, ErrorsNew("failed to parse ORDER_AMOUNT_CENTS environment variable"),
                       RawKey(FALSE, <<>>))
             ELSE IF hasAmount /\ amount.val <= 0
             THEN done(c2, ErrorsNew("ORDER_AMOUNT_CENTS cannot be less than or equal to zero"),
                       RawKey(FALSE, <<>>))
             ELSE IF ~data.ok
             THEN done(c3, ErrorfV("failed to decode KRAKEN_API_KEY environment variable",
                                   ErrCorruptInput),
                       RawKey(TRUE, env.KRAKEN_PRIVATE_KEY))
             ELSE done(c3, NoErr, RawKey(TRUE, env.KRAKEN_PRIVATE_KEY))
    IN  /\ load = NoLoad
        /\ config' = r.Config
        /\ load' = [entry |-> "cli.Run", env |-> env, err |-> r.err, calls |-> <<>>,
                    raw |-> r.raw]
        /\ UNCHANGED <<orderVars, calc, signed, command>>

\* Responses of the runs in which two goroutines call concurrently.
ConcTickerResponses ==
    {TickerResponse("transport", <<>>, <<>>), TickerResponse("json", <<>>, <<"50000.0">>)}

ConcAddOrderResponses ==
    {AddOrderResponse("json", <<"EAPI:Invalid nonce">>, <<>>, ""),
     AddOrderResponse("json", <<>>, <<"OTX1">>, "buy XBTUSD @ market")}

ConcQueryOrdersResponses ==
    {QueryOrdersResponse("json", <<"EAPI:Invalid nonce">>, EmptyResult),
     QueryOrdersResponse("json", <<>>,
         ResultFor("OTX1", OrderFields("0.26", "100.0", "50000.0", "0.002")))}

\* One goroutine makes call after call.
Next ==
    \/ \E c \in ProviderConfigs : New(c)
    \/ \E c \in Sequential, a \in Amounts : ExecuteOrder(c, a)
    \/ \E c \in Sequential : Cancel(c)
    \/ \E c \in Sequential : TickerDo(c)
    \/ \E c \in Sequential, resp \in TickerResponses \cup {TickerCanceled} :
          TickerReply(c, resp)
    \/ \E c \in Sequential : AddOrderDo(c)
    \/ \E c \in Sequential, resp \in AddOrderResponses : AddOrderReply(c, resp)
    \/ \E c \in Sequential : QueryOrdersDo(c)
    \/ \E c \in Sequential, resp \in QueryOrdersResponses : QueryOrdersReply(c, resp)
    \/ \E c \in Sequential : Return(c)

Spec == Init /\ [][Next]_vars

\* Several goroutines call into the same provider.
NextConc ==
    \/ \E c \in ProviderConfigs : New(c)
    \/ \E c \in Callers : ExecuteOrder(c, 10000)
    \/ \E c \in Callers : Cancel(c)
    \/ \E c \in Callers : TickerDo(c)
    \/ \E c \in Callers, resp \in ConcTickerResponses \cup {TickerCanceled} :
          TickerReply(c, resp)
    \/ \E c \in Callers : AddOrderDo(c)
    \/ \E c \in Callers, resp \in ConcAddOrderResponses : AddOrderReply(c, resp)
    \/ \E c \in Callers : QueryOrdersDo(c)
    \/ \E c \in Callers, resp \in ConcQueryOrdersResponses : QueryOrdersReply(c, resp)
    \/ \E c \in Callers : Return(c)

SpecConc == Init /\ [][NextConc]_vars

\* The library functions, each applied once to one input.
NextPure ==
    \/ \E m \in Messages : ApplyToError(m)
    \/ \E resp \in TickerResponses \cup {TickerCanceled}, a \in Amounts :
          ApplyFetchBuyVolume(resp, a)
    \/ \E resp \in AddOrderResponses : ApplyPlaceOrder(resp)
    \/ \E resp \in QueryFieldResponses, t \in TransactionIDs : ApplyQueryOrderInfo(resp, t)
    \/ \E k \in Keys : ApplyHasPrefix(k)
    \/ \E k \in Keys, p \in {<<>>, ParamStorePlaintextPrefix, ParamStoreEncryptedPrefix} :
          ApplyStrip(p \o k)

SpecPure == Init /\ [][NextPure]_vars

\* Calls of generateSignature, one after the other.
NextSign ==
    \E key \in SecretKeys, path \in SignPaths, data \in SignForms, nonce \in SignNonces :
        Sign(key, path, data, nonce)

SpecSign == Init /\ [][NextSign]_vars

\* A command loads its configuration, once.
\* cmd/cli's realMain begins: the flags are parsed (parsed: fs.Parse returned
\* nil) and --config or CONFIG_FILE names the config file.
realMain(parsed, configFile) ==
    /\ command = NoCommand
    /\ command' = IF parsed
                  THEN [NoCommand EXCEPT !.entry = "realMain", !.pc = "load",
                                         !.configFile = configFile]
                  ELSE [NoCommand EXCEPT !.entry = "realMain", !.pc = "done", !.exit = 1]
    /\ UNCHANGED <<orderVars, calc, signed, config, load>>

\* The lambda's handleRequest begins: configFileName is CONFIG_FILE.
handleRequest(configFileName) ==
    /\ command = NoCommand
    /\ command' = IF configFileName = <<>>
                  THEN [NoCommand EXCEPT !.entry = "handleRequest", !.pc = "done",
                                         !.err = ErrorsNew("no configuration file provided")]
                  ELSE [NoCommand EXCEPT !.entry = "handleRequest", !.pc = "load",
                                         !.configFile = configFileName]
    /\ UNCHANGED <<orderVars, calc, signed, config, load>>

\* An entry point that goes on to Run whatever LoadConfig returned.
RunFollowsAnyLoad(loadErr) == TRUE

\* Both entry points: "if err := load; err != nil { return } else if err =
\* m.Run(ctx); ...": Run is called when loading returned nil.
RunFollows(loadErr) == loadErr = NoErr

\* What an entry point reports for an error e of loading or of Run.
Report(c, e) ==
    IF c.entry = "realMain"
    THEN [c EXCEPT !.pc = "done", !.exit = IF e = NoErr THEN 0 ELSE 1]
    ELSE [c EXCEPT !.pc = "done", !.err = e,
                   !.result = IF e = NoErr THEN "Successfully processed messages" ELSE ""]

\* The entry point loads its configuration (realMain through
\* ParseFlagsAndLoadConfig) and returns at once when that fails.
MainLoadConfig(doc, ssm) ==
    /\ command.pc = "load"
    /\ LoadConfig(command.configFile, doc, ssm)
    /\ command' = LET c == [command EXCEPT !.loaded = TRUE, !.loadErr = load'.err]
                  IN  IF RunFollows(load'.err) THEN [c EXCEPT !.pc = "run"]
                      ELSE Report(c, load'.err)

\* The error of a failed order, as Main.Run returns it.
ErrRun == ErrorfW("KrakenProvider.PlaceOrder", ErrTransport)

RunOutcomes == {"ok", "failed", "panicked"}

\* Main.Run: the provider is constructed from the stored Config and the order
\* is placed; the entry point reports how it went.  A panic of the order call
\* ends the process.
MainRun(outcome) ==
    LET c == [command EXCEPT !.ran = TRUE,
                             !.runErr = IF outcome = "failed" THEN ErrRun ELSE NoErr]
        cfg == [APIKey |-> config.KrakenAPIKey, APISecret |-> config.KrakenPrivateKey]
    IN  /\ command.pc = "run"
        /\ providerConfig' = cfg
        /\ provider' = NewKrakenProvider(cfg)
        /\ boundTime' = now
        /\ crashed' = (outcome = "panicked")
        /\ command' = IF outcome = "panicked" THEN [c EXCEPT !.pc = "crashed"]
                      ELSE Report(c, c.runErr)
        /\ UNCHANGED <<now, pc, id, order, ctxDone, res, err, started, finished, before,
                       steps, req, returned, sent, accepted, exchange, calc, signed,
                       config, load>>

\* Configuration documents given to the entry points.
EntryDocuments ==
    {Document(st, ZeroConfig) : st \in {"unreadable", "notjson"}}
    \cup {Document("json", Config(a, p, n)) :
            a \in {ParamName, ParamStorePlaintextPrefix \o ParamName},
            p \in {<<81, 81, 61, 61>>, <<33>>, ParamStorePlaintextPrefix \o ParamName},
            n \in {0, 500}}

NextConfig ==
    \/ /\ load = NoLoad
       /\ \E filename \in Filenames, doc \in Documents, ssm \in SSMStores :
             LoadConfig(filename, doc, ssm) /\ UNCHANGED command
    \/ /\ load = NoLoad
       /\ \E env \in Envs : CliRun(env)

SpecConfig == Init /\ [][NextConfig]_vars

\* The two entry points, from their start to what they report.
NextMain ==
    \/ \E parsed \in BOOLEAN, f \in Filenames : realMain(parsed, f)
    \/ \E f \in Filenames : handleRequest(f)
    \/ \E doc \in EntryDocuments, ssm \in SSMStores : MainLoadConfig(doc, ssm)
    \/ \E o \in RunOutcomes : MainRun(o)

SpecMain == Init /\ [][NextMain]_vars

\* ------------------------------------------------------------------ history
\* The requests of call i, in the order they left.
SentOf(i) == SelectSeq(sent, LAMBDA r : r.call = i)

\* Positions in sent of the private (signed, nonce-carrying) requests.
PrivateIdx == {k \in 1..Len(sent) : sent[k].ep \in Private}

\* Call a had returned before call b began, or they are the same call.
NotAfter(a, b) == a = b \/ a \in before[b]

\* Calls a and b overlapped in time.
Overlap(a, b) == a # b /\ a \notin before[b] /\ b \notin before[a]

EndpointOrder == <<"Ticker", "AddOrder", "QueryOrders">>

\* The provider message a private step of call i was answered with.
GotProviderMessage(i, m) ==
    \E k \in 1..Len(steps[i]) : steps[i][k].ep \in Private /\ steps[i][k].msg = m

\* ------------------------------------------------------------------ claims

\* C1: with the default generator, every call of GenerateNonce returns a value
\* strictly greater than every value the instance returned before.
C1_NonceStrictlyIncreasing ==
    \A i, j \in 1..Len(returned) : i < j => returned[i] < returned[j]

\* C2: within one ExecuteOrder call the nonce of the QueryOrders request is
\* strictly greater than the nonce of the AddOrder request that preceded it.
C2_QueryNonceAboveAddOrderNonce ==
    \A i, j \in PrivateIdx :
        (/\ i < j
         /\ sent[i].call = sent[j].call
         /\ sent[i].ep = "AddOrder"
         /\ sent[j].ep = "QueryOrders") => sent[i].nonce < sent[j].nonce

\* C2 witness: a call has sent its AddOrder and then its QueryOrders.
C2_Witness ==
    \E i, j \in PrivateIdx :
        /\ i < j
        /\ sent[i].call = sent[j].call
        /\ sent[i].ep = "AddOrder"
        /\ sent[j].ep = "QueryOrders"

\* C3: over calls made one after the other, the nonces of the private requests
\* strictly increase in the order the requests are sent; the AddOrder of a later
\* call carries a greater nonce than every private request of an earlier call.
C3_NoncesIncreaseAcrossCalls ==
    \A i, j \in PrivateIdx :
        (i < j /\ NotAfter(sent[i].call, sent[j].call)) => sent[i].nonce < sent[j].nonce

\* C4: the private requests of calls that run concurrently on one provider
\* carry pairwise distinct nonces.
C4_ConcurrentNoncesDistinct ==
    \A i, j \in PrivateIdx :
        (i # j /\ Overlap(sent[i].call, sent[j].call)) => sent[i].nonce # sent[j].nonce

\* C5: a call that failed because AddOrder or QueryOrders answered
\* "EAPI:Invalid key" (resp. the volume-minimum message) returns an error that is
\* still ErrInvalidAuth (resp. ErrOrderToSmall) under errors.Is.
C5_TypedErrorSurvivesWrapping ==
    \A c \in Callers :
        pc[c] = "Failed" =>
            /\ GotProviderMessage(id[c], "EAPI:Invalid key") =>
                   "ErrInvalidAuth" \in err[c].is
            /\ GotProviderMessage(id[c], "EGeneral:Invalid arguments:volume minimum not met") =>
                   "ErrOrderToSmall" \in err[c].is

\* C6: a call that returns an error has left no acknowledged order behind.
C6_FailedCallPlacedNoOrder ==
    \A c \in Callers : pc[c] = "Failed" => id[c] \notin accepted

\* C7, the order of the requests of one call: Ticker, AddOrder, QueryOrders, each
\* sent only after the step before it succeeded.
C7_StepsInOrder ==
    \A i \in CallIds :
        LET q == SentOf(i)
        IN  /\ Len(q) <= Len(EndpointOrder)
            /\ \A k \in 1..Len(q) : q[k].ep = EndpointOrder[k]
            /\ \A k \in 2..Len(q) :
                   /\ Len(steps[i]) >= k - 1
                   /\ steps[i][k - 1].ep = EndpointOrder[k - 1]
                   /\ steps[i][k - 1].ev = "ok"

\* C7, the end of a call: a call that has returned sends nothing more.
C7_NothingAfterReturn ==
    \A i \in finished : SentOf(i)' = SentOf(i)

\* C7: one call runs ticker fetch, AddOrder, QueryOrders strictly in that order,
\* each step only if every earlier step succeeded, and sends no request once it
\* is Completed or Failed.
C7_LinearNoStepAfterFailure == [](C7_StepsInOrder) /\ [][C7_NothingAfterReturn]_vars

\* C7 witness: a call whose AddOrder failed has returned having sent the ticker
\* request and the AddOrder only.
C7_Witness ==
    \E i \in finished :
        /\ Len(steps[i]) = 2
        /\ steps[i][2].ep = "AddOrder"
        /\ steps[i][2].ev = "failed"
        /\ Len(SentOf(i)) = 2

\* C8: in one call each endpoint receives at most one request, whatever the
\* outcome of any step.
C8_AtMostOneRequestPerEndpoint ==
    \A i \in CallIds, ep \in {"Ticker", "AddOrder", "QueryOrders"} :
        Cardinality({k \in 1..Len(sent) : sent[k].call = i /\ sent[k].ep = ep}) <= 1

\* C8 witness: a call has returned after its last step, QueryOrders, failed,
\* having sent one request to each endpoint.
C8_Witness ==
    \E i \in finished :
        /\ Len(steps[i]) = 3
        /\ steps[i][3].ev = "failed"
        /\ Len(SentOf(i)) = 3

\* C9: every request is bound to the caller's context, and no AddOrder or
\* QueryOrders request leaves the client once that context is cancelled.
C9_NoPrivateRequestAfterCancel ==
    \A c \in Callers : req[c].ep \in Private => ~req[c].afterCancel

\* C10: no AddOrder request is sent with a volume that is non-positive or not a
\* proper number; such a call fails instead.
C10_BadVolumeNeverSent ==
    \A c \in Callers : req[c].ep = "AddOrder" => IsPositiveFinite(req[c].form.volume)

\* The ticker round trip gave no usable ask price.
TickerFailure(resp) ==
    \/ resp.status # "json"
    \/ Len(resp.error) > 0
    \/ Len(resp.a) = 0
    \/ ~ParseFloat(resp.a[1]).ok

\* C11: for every outcome of the ticker request that gives no usable ask price
\* (transport failure, non-JSON body, missing or empty ask array, unparsable ask
\* price, non-empty error list of any element type) fetchBuyVolume returns a
\* wrapped error and no volume; it never panics.
C11_TickerFailureIsWrappedError ==
    (calc.op = "fetchBuyVolume" /\ TickerFailure(calc.in[1])) =>
        /\ ~calc.out.panic
        /\ calc.out.err # NoErr
        /\ calc.out.err.text[1] = "fetchBuyVolume"
        /\ calc.out.volume = FZero

\* C12: toError is an exact-string lookup: the volume-minimum message gives
\* ErrOrderToSmall, "EAPI:Invalid key" gives ErrInvalidAuth, and every other
\* message m, near-matches in case or white space included, gives a new error
\* whose text is exactly m and which is neither typed error.
C12_ToErrorExactLookup ==
    calc.op = "toError" =>
        LET m == calc.in[1]
            e == calc.out
        IN  /\ m = "EGeneral:Invalid arguments:volume minimum not met" =>
                   e = ErrOrderToSmall
            /\ m = "EAPI:Invalid key" => e = ErrInvalidAuth
            /\ m \notin {"EGeneral:Invalid arguments:volume minimum not met",
                          "EAPI:Invalid key"} =>
                   /\ e.text = <<m>>
                   /\ e.is = {}
                   /\ e \notin {ErrOrderToSmall, ErrInvalidAuth}

\* C12 witness: the classifier was given "EAPI:Invalid key" with a trailing
\* space and returned an opaque error.
C12_Witness ==
    /\ calc.op = "toError"
    /\ calc.in[1] = "EAPI:Invalid key "
    /\ calc.out.is = {}
    /\ calc.out.text = <<"EAPI:Invalid key ">>

\* The arguments of a generateSignature call.
SignInputs(e) == <<e.key, e.path, e.data, e.nonce>>

\* C13, determinism: two calls with identical path, form, nonce and secret key
\* return the identical string, whatever was signed in between.
C13_SameInputsSameSignature ==
    \A i, j \in 1..Len(signed) :
        SignInputs(signed[i]) = SignInputs(signed[j]) =>
            signed[i].signature = signed[j].signature

\* C13, frame: a call of generateSignature changes no state of the provider.
C13_SigningChangesNoState == signed' # signed => UNCHANGED orderVars

KeyByte(key, k) == IF k <= Len(key) THEN key[k] ELSE 0

\* Two keys differ in more than trailing zero bytes.
KeysDifferBeyondPadding(a, b) ==
    \E k \in 1..(Len(a) + Len(b)) : KeyByte(a, k) # KeyByte(b, k)

TickerQuote(resp) ==
    /\ resp.status = "json"
    /\ Len(resp.error) = 0
    /\ Len(resp.a) > 0
    /\ ParseFloat(resp.a[1]).ok

\* A float64 that compares greater than zero.
IsPositive(a) == a.k \in {"pinf", "tiny"} \/ (a.k = "num" /\ a.n > 0)

\* v is the number c / (100 * q), for an ordinary number q.
IsVolumeOf(v, q, c) == v.k = "num" /\ v.d > 0 /\ v.n * 100 * q.n = c * q.d * v.d

\* C15 as stated: for every ask price q > 0 and every amount c > 0,
\* fetchBuyVolume returns no error and a strictly positive number, the volume
\* (1/q)/100 * c.
C15_VolumeForEveryPositiveAsk ==
    (/\ calc.op = "fetchBuyVolume"
     /\ TickerQuote(calc.in[1])
     /\ IsPositive(ParseFloat(calc.in[1].a[1]).val)
     /\ calc.in[2] > 0) =>
        /\ ~calc.out.panic
        /\ calc.out.err = NoErr
        /\ IsPositiveFinite(calc.out.volume)

\* C15 amended: for every finite ask price q > 0 whose reciprocal is finite and
\* every amount c > 0, fetchBuyVolume returns no error and the volume
\* (1/q)/100 * c, which is strictly positive; ask "50000.0" gives 0.002 for
\* 10000 cents and 0.0001 for 500 cents.
C15_VolumeForFiniteAsk ==
    (/\ calc.op = "fetchBuyVolume"
     /\ TickerQuote(calc.in[1])
     /\ IsPositiveFinite(ParseFloat(calc.in[1].a[1]).val)
     /\ calc.in[2] > 0) =>
        LET q == ParseFloat(calc.in[1].a[1]).val
            c == calc.in[2]
            v == calc.out.volume
        IN  /\ ~calc.out.panic
            /\ calc.out.err = NoErr
            /\ IsVolumeOf(v, q, c)
            /\ IsPositiveFinite(v)
            /\ (calc.in[1].a[1] = "50000.0" /\ c = 10000) => v = ParseFloat("0.002").val
            /\ (calc.in[1].a[1] = "50000.0" /\ c = 500) => v = Num(1, 10000)

\* C15 witness: fetchBuyVolume ran on ask "50000.0" with 10000 cents and
\* returned 0.002 with no error.
C15_Witness ==
    /\ calc.op = "fetchBuyVolume"
    /\ calc.in[1].a = <<"50000.0">>
    /\ calc.in[2] = 10000
    /\ calc.out.err = NoErr
    /\ calc.out.volume = Num(1, 500)
\* The private key the command goes on to use.
StoredPrivateKey ==
    IF load.entry = "cli.Run" THEN config.PrivateKey ELSE config.KrakenPrivateKey

\* C16: when the Kraken private key is loaded, a value that is valid standard
\* base64 is replaced by its decoded bytes, and a value that is not valid base64
\* is used unmodified and does not make loading fail.
C16_BestEffortBase64 ==
    (load # NoLoad /\ load.raw.reached) =>
        LET data == DecodeString(load.raw.key)
        IN  /\ load.err = NoErr
            /\ StoredPrivateKey = IF data.ok THEN data.val ELSE load.raw.key

\* LoadConfig got as far as the API key of a decoded configuration document,
\* and the AWS configuration loads.
ReachedAPIKey ==
    /\ load # NoLoad
    /\ load.entry = "LoadConfig"
    /\ load.ssm.cfgOK
    /\ load.filename # <<>>
    /\ ~HasAWSParamStorePrefix(load.filename)
    /\ load.doc.status = "json"
    /\ load.doc.config.OrderAmountInCents > 0

\* C17: an API key that starts with the documented prefix "awsssm:" or
\* "awsssme:", such as "awsssm:/k", is resolved by a read of the parameter store
\* (with decryption for the second form); it is neither rejected for its prefix
\* nor used literally.
C17_DocumentedPrefixResolved ==
    \A form \in {<<FALSE, SubSeq(DocumentedPlaintextKey, 1, 7)>>,
                 <<TRUE, SubSeq(DocumentedEncryptedKey, 1, 8)>>} :
        (ReachedAPIKey /\ HasPrefix(load.doc.config.KrakenAPIKey, form[2])) =>
            /\ Len(load.calls) >= 1
            /\ load.calls[1].WithDecryption = form[1]
            /\ load.err = NoErr => config.KrakenAPIKey # load.doc.config.KrakenAPIKey

\* k starts with p, byte by byte.
StartsWith(k, p) == Len(k) >= Len(p) /\ \A i \in 1..Len(p) : k[i] = p[i]

\* C18: for every key k, HasAWSParamStorePlaintextPrefix(k) holds exactly when k
\* starts with "awsssm://", HasAWSParamStoreEncryptedPrefix(k) exactly when k
\* starts with "awsssme://", never both, each implies HasAWSParamStorePrefix(k),
\* and none of the three holds for the empty string.
C18_PrefixPredicates ==
    calc.op = "HasAWSParamStorePrefix" =>
        LET k == calc.in[1]
            has == calc.out
        IN  /\ has.plaintext <=> StartsWith(k, <<97, 119, 115, 115, 115, 109, 58, 47, 47>>)
            /\ has.encrypted <=>
                   StartsWith(k, <<97, 119, 115, 115, 115, 109, 101, 58, 47, 47>>)
            /\ ~(has.plaintext /\ has.encrypted)
            /\ has.plaintext => has.any
            /\ has.encrypted => has.any
            /\ k = <<>> => (~has.any /\ ~has.plaintext /\ ~has.encrypted)

\* C18 witness: the predicates were applied to "awsssme://a": encrypted and
\* prefixed, not plaintext.
C18_Witness ==
    /\ calc.op = "HasAWSParamStorePrefix"
    /\ calc.in[1] = <<97, 119, 115, 115, 115, 109, 101, 58, 47, 47, 97>>
    /\ calc.out.encrypted
    /\ calc.out.any
    /\ ~calc.out.plaintext

\* C19: StripAWSParamStorePrefix removes exactly one leading scheme prefix:
\* Strip("awsssm://" + s) = s and Strip("awsssme://" + s) = s for every s, and a
\* key that starts with neither prefix, the empty one included, is unchanged.
C19_StripRemovesOnePrefix ==
    calc.op = "StripAWSParamStorePrefix" =>
        LET k == calc.in[1]
            plain == <<97, 119, 115, 115, 115, 109, 58, 47, 47>>
            enc == <<97, 119, 115, 115, 115, 109, 101, 58, 47, 47>>
        IN  /\ \A s \in Keys : k = plain \o s => calc.out = s
            /\ \A s \in Keys : k = enc \o s => calc.out = s
            /\ (~StartsWith(k, plain) /\ ~StartsWith(k, enc)) => calc.out = k

\* C19 witness: "awsssme://awsssme://a" was stripped to "awsssme://a", one
\* prefix only.
C19_Witness ==
    /\ calc.op = "StripAWSParamStorePrefix"
    /\ calc.in[1] = <<97, 119, 115, 115, 115, 109, 101, 58, 47, 47,
                      97, 119, 115, 115, 115, 109, 101, 58, 47, 47, 97>>
    /\ calc.out = <<97, 119, 115, 115, 115, 109, 101, 58, 47, 47, 97>>

\* C20: when the ticker's error list is non-empty, fetchBuyVolume fails with the
\* first message classified as toError classifies it: "EAPI:Invalid key" from
\* the ticker yields an error that is ErrInvalidAuth, the volume-minimum message
\* one that is ErrOrderToSmall.
C20_TickerErrorClassified ==
    (/\ calc.op = "fetchBuyVolume"
     /\ calc.in[1].status = "json"
     /\ Len(calc.in[1].error) > 0
     /\ calc.in[1].error[1].isString) =>
        LET m == calc.in[1].error[1].text
        IN  /\ ~calc.out.panic
            /\ calc.out.err # NoErr
            /\ m = "EAPI:Invalid key" => "ErrInvalidAuth" \in calc.out.err.is
            /\ m = "EGeneral:Invalid arguments:volume minimum not met" =>
                   "ErrOrderToSmall" \in calc.out.err.is

\* C21: for every decodable add-order response placeOrder has exactly one of
\* two outcomes: with a non-empty error list, the mapped error of the first
\* message and empty transaction ID and description; otherwise the first
\* transaction ID and the order description with no error, also when the txid
\* list is empty or absent: the call returns normally.
C21_PlaceOrderTwoOutcomes ==
    (calc.op = "placeOrder" /\ calc.in[1].status = "json") =>
        LET resp == calc.in[1]
            r == calc.out
        IN  /\ ~r.panic
            /\ Len(resp.error) > 0 =>
                   /\ r.err # NoErr
                   /\ r.err.text = <<"placeOrder", "failed to place order">>
                                    \o toError(resp.error[1]).text
                   /\ r.transactionID = ""
                   /\ r.orderDescription = ""
            /\ Len(resp.error) = 0 =>
                   /\ r.err = NoErr
                   /\ Len(resp.txid) > 0 => r.transactionID = resp.txid[1]
                   /\ r.orderDescription = resp.order

\* The label of the parse error for each of the four converted fields.
ParseLabel ==
    [Fee |-> "failed to parse fee", Cost |-> "failed to parse cost",
     Price |-> "failed to parse price", Vol |-> "failed to parse volume"]

\* The conversion step of queryOrderInfo is reached: the body decoded and its
\* error list is empty.
ConversionReached ==
    /\ calc.op = "queryOrderInfo"
    /\ calc.in[1].status = "json"
    /\ Len(calc.in[1].error) = 0

\* C22: once the query response is decoded without a provider error,
\* queryOrderInfo returns no error exactly when the requested id is in the
\* result map and its fee, cost, price and vol all convert, and then the
\* OrderInfo holds those four values; otherwise it returns a parse error
\* labelled with a field that failed to convert, identical to neither
\* ErrOrderToSmall nor ErrInvalidAuth.
C22_ParseErrorNamesField ==
    ConversionReached =>
        LET resp == calc.in[1]
            t == calc.in[2]
            r == calc.out
            present == t \in DOMAIN resp.result
            failing == IF present
                       THEN {f \in DOMAIN ParseLabel : ~ParseFloat(resp.result[t][f]).ok}
                       ELSE DOMAIN ParseLabel
        IN  /\ r.err = NoErr <=> (present /\ failing = {})
            /\ r.err = NoErr =>
                   r.oi = orderInfo(ParseFloat(resp.result[t].Vol).val,
                                    ParseFloat(resp.result[t].Cost).val,
                                    ParseFloat(resp.result[t].Fee).val,
                                    ParseFloat(resp.result[t].Price).val)
            /\ r.err # NoErr =>
                   /\ r.err.is = {}
                   /\ \E f \in failing : r.err.text[2] = ParseLabel[f]

\* A requested id is absent from a map that holds another, well-formed order.
C22_Witness ==
    /\ ConversionReached
    /\ calc.in[2] \notin DOMAIN calc.in[1].result
    /\ DOMAIN calc.in[1].result # {}
    /\ calc.out.err.text[2] = "failed to parse fee"

\* The value of a field of a form-encoded body, as it stands in the body.
RECURSIVE TakeValue(_, _)
TakeValue(body, i) ==
    IF i > Len(body) \/ body[i] = "&" THEN <<>>
    ELSE <<body[i]>> \o TakeValue(body, i + 1)

FormValue(body, key) ==
    LET i == CHOOSE j \in 1..Len(body) : body[j] = key
    IN  TakeValue(body, i + 2)

PrivateInFlight(c) == req[c].ep \in Private

\* C23: for every private request in flight, the API-Sign header is the MAC,
\* under the provider's secret key, of the path of the request's own URL
\* followed by the digest of the body's nonce field followed by the body as
\* sent; the nonce field of the body is the decimal form of the request's
\* nonce.
C23_SignatureCoversWhatIsSent ==
    \A c \in Callers :
        PrivateInFlight(c) =>
            LET r == req[c]
                nonce == FormValue(r.body, "nonce")
            IN  /\ nonce = FormatInt(r.form.nonce)
                /\ r.header.APISign =
                       EncodeToString(
                           hmacSum(provider.APISecretKey,
                                   [path |-> r.path, hash |-> sha256Sum(nonce \o r.body)]))

\* Both private requests have been seen: an AddOrder whose volume has a
\* fraction and a QueryOrders for the id the exchange returned.
C23_Witness ==
    \E c \in Callers :
        /\ req[c].ep = "QueryOrders"
        /\ FormValue(req[c].body, "txid") = <<"O", "T", "X", "1">>
        /\ \E i \in 1..Len(sent) : sent[i].ep = "AddOrder" /\ sent[i].call = id[c]
        /\ res[c].RequestedVolume.d > 1

\* C24: a call that has returned an error hands the caller a response without
\* the amount, the requested volume or the transaction id of the order it
\* was working on.
C24_NoPartialResultWithError ==
    \A c \in Callers :
        pc[c] = "Failed" =>
            /\ err[c] # NoErr
            /\ res[c].AmountInCents = 0
            /\ res[c].RequestedVolume = FZero
            /\ res[c].TransactionID = ""

\* The provider holds the credentials it was constructed with, and every
\* private request in flight carries that API key.
CredentialsAsConstructed ==
    provider.constructed =>
        /\ provider.APIKey = providerConfig.APIKey
        /\ provider.APISecretKey = providerConfig.APISecret
        /\ \A c \in Callers :
               req[c].ep \in Private => req[c].header.APIKey = providerConfig.APIKey

\* No step of an order call writes the provider's credentials.
CredentialsNotWritten ==
    provider.constructed => /\ provider' = provider
                            /\ providerConfig' = providerConfig

\* C25: through any sequence of order calls, sequential or concurrent, the
\* provider's API key and secret key are the values given at construction, and
\* no step of a call changes them.
C25_CredentialsNeverChange ==
    [](CredentialsAsConstructed) /\ [][CredentialsNotWritten]_vars

\* Two calls on the one provider have ended, one completed and one failed.
C25_Witness ==
    /\ provider.constructed
    /\ finished = {1, 2}
    /\ \E i, j \in CallIds :
          /\ Len(steps[i]) = 3 /\ steps[i][3].ev = "ok"
          /\ steps[j] # <<>> /\ steps[j][Len(steps[j])].ev = "failed"

\* Requests a call has sent so far.
RequestsOf(i) == Cardinality({k \in 1..Len(sent) : sent[k].call = i})

\* C26: a call never ends otherwise than Completed or Failed (each of its
\* states is idle, in flight, Completed or Failed), and it has sent at most
\* three requests.
C26_EndsCompletedOrFailed ==
    /\ \A c \in Callers : pc[c] \in {"idle", "Completed", "Failed"} \cup InFlight
    /\ \A i \in CallIds : RequestsOf(i) <= 3

\* C27: when a call has completed, its response is made of that call's own
\* steps: the amount is the one requested, the requested volume is the volume
\* field of the AddOrder body, the transaction id is the first id AddOrder
\* answered and the txid field of the QueryOrders body, and price, cost, fee
\* and purchased volume are the converted fields the answer holds for that id.
C27_ResponseFromOwnSteps ==
    \A c \in Callers :
        pc[c] = "Completed" =>
            LET r == res[c]
                x == exchange[c]
            IN  /\ err[c] = NoErr
                /\ r.AmountInCents = order[c]
                /\ FormatFloat(r.RequestedVolume) = x.volume
                /\ x.txid # <<>>
                /\ r.TransactionID = x.txid[1]
                /\ Bytes(r.TransactionID) = x.queried
                /\ r.TransactionID \in DOMAIN x.result
                /\ r.Price = ParseFloat(x.result[r.TransactionID].Price).val
                /\ r.Cost = ParseFloat(x.result[r.TransactionID].Cost).val
                /\ r.Fee = ParseFloat(x.result[r.TransactionID].Fee).val
                /\ r.VolumePurchased = ParseFloat(x.result[r.TransactionID].Vol).val

\* A second call has completed with an amount and a volume of its own.
C27_Witness ==
    \E c \in Callers :
        /\ pc[c] = "Completed"
        /\ id[c] = 2
        /\ res[c].TransactionID = "OTX1"
        /\ res[c].Cost # res[c].Fee
        /\ res[c].RequestedVolume.k = "num"

\* C28: whenever LoadConfig has returned nil, the configuration it stored has
\* an order amount above zero, a non-empty API key and a non-empty private
\* key.
C28_LoadedConfigIsComplete ==
    (load # NoLoad /\ load.entry = "LoadConfig" /\ load.err = NoErr) =>
        /\ config.OrderAmountInCents > 0
        /\ config.KrakenAPIKey # <<>>
        /\ config.KrakenPrivateKey # <<>>

\* C29: a LoadConfig that returns an error leaves the stored Config exactly as
\* it was; a LoadConfig that returns nil has replaced it by the loaded one,
\* which holds the document's order amount.
C29_ConfigReplacedOnlyOnSuccess ==
    [][(load = NoLoad /\ load' # NoLoad /\ load'.entry = "LoadConfig") =>
          IF load'.err # NoErr
          THEN config' = config
          ELSE /\ config'.OrderAmountInCents = load'.doc.config.OrderAmountInCents
               /\ config' # config]_vars

\* A load has failed after the document was decoded and its API key read from
\* the parameter store: the private key could not be fetched.
C29_Witness ==
    /\ load # NoLoad
    /\ load.entry = "LoadConfig"
    /\ load.err # NoErr
    /\ load.doc.status = "json"
    /\ load.doc.config.OrderAmountInCents > 0
    /\ Len(load.calls) >= 1
    /\ config = ZeroConfig

\* The entry point has reported success.
Success ==
    IF command.entry = "realMain" THEN command.exit = 0
    ELSE command.result = "Successfully processed messages" /\ command.err = NoErr

\* C30: in realMain and in handleRequest, Run is called, and a provider exists,
\* only after LoadConfig was called and returned nil; an entry point that has
\* returned reports success exactly when LoadConfig and Run both returned nil,
\* and failure (exit code 1, or an empty string with an error) otherwise; and
\* handleRequest with an empty CONFIG_FILE fails without calling LoadConfig.
C30_RunOnlyAfterLoad ==
    command.entry # "none" =>
        /\ command.ran => (command.loaded /\ command.loadErr = NoErr /\ load.err = NoErr)
        /\ provider.constructed => command.ran
        /\ command.loaded <=> load # NoLoad
        /\ command.pc = "done" =>
               /\ Success <=> /\ command.loaded /\ command.loadErr = NoErr
                               /\ command.ran /\ command.runErr = NoErr
               /\ ~Success => IF command.entry = "realMain" THEN command.exit = 1
                               ELSE command.result = "" /\ command.err # NoErr
        /\ (command.entry = "handleRequest" /\ command.configFile = <<>>) =>
               /\ command.pc = "done"
               /\ ~command.loaded /\ ~command.ran
               /\ load = NoLoad
               /\ ~Success

\* The lambda handler loaded a configuration whose keys came from the parameter
\* store, ran, and reports the failure of the order.
C30_Witness ==
    /\ command.entry = "handleRequest"
    /\ command.pc = "done"
    /\ command.ran
    /\ command.err = ErrRun
    /\ Len(load.calls) >= 1
====
